---- MODULE Spec2Model ----
(***************************************************************************)
(* effect-react-query: the bridge that runs an Effect inside a             *)
(* ManagedRuntime and hands its outcome to @tanstack/react-query as a      *)
(* promise (useRunner), the three hook adapters built on it                *)
(* (useEffectQuery, useEffectInfiniteQuery, useEffectMutation) and the     *)
(* shipped EffectQueryProvider / queryClient.                              *)
(***************************************************************************)
EXTENDS Integers, Sequences, FiniteSets, TLC

VARIABLES
    opts,       \* the options object the component passes to the hook
    forwarded,  \* the options object the hook handed to the library at its last render
    inv         \* the invocations of the wrapped function, by slot

vars == <<opts, forwarded, inv>>

---------------------------------------------------------------------------
(* Bounds of the input space.                                              *)

\* success values are 0 .. MaxValue
MaxValue == 1
\* a retry count passed at run time is 0 .. MaxRetryOption
MaxRetryOption == 1

Invocations == {"i1", "i2"}

---------------------------------------------------------------------------
(* JavaScript values, as far as the code inspects them.                    *)

JsUndefined == [type |-> "undefined", val |-> ""]
JsString(s) == [type |-> "string", val |-> s]
JsBoolean(b) == [type |-> "boolean", val |-> IF b THEN "true" ELSE "false"]
JsFalse == JsBoolean(FALSE)
JsTrue == JsBoolean(TRUE)

DEFAULT_ERROR_MESSAGE == "Something went wrong"
DEFAULT_DEFECT_MESSAGE == "An unexpected error occurred"

\* `_tag`s of the typed failures of the computations
Tags == {"NotFound", "Unknown"}

\* typed failures E: { _tag, message? }
EffectfulError ==
    [_tag : Tags, message : {JsUndefined, JsString("boom")}]

\* values thrown outside the error channel
Defects == {[name |-> "TypeError", message |-> JsString("kaboom")]}

InterruptedException == [name |-> "InterruptedException", message |-> JsString("")]

\* Predicate.isRecord, hasProperty("message"), struct({ message: isString })
hasStringMessage(error) == error.message.type = "string"

---------------------------------------------------------------------------
(* Cause and Exit of effect.                                               *)

Fail(e) == [_tag |-> "Fail", error |-> e]
Die(d) == [_tag |-> "Die", defect |-> d]
Interrupt == [_tag |-> "Interrupt", fiberId |-> "#0"]

LeafCauses == {Fail(e) : e \in EffectfulError} \cup {Die(d) : d \in Defects} \cup {Interrupt}

\* the leaves out of which the composite causes of the model are built
CompositeLeaves ==
    {Fail([_tag |-> "NotFound", message |-> JsUndefined]), Interrupt}
        \cup {Die(d) : d \in Defects}

CompositeCauses ==
    [_tag : {"Sequential", "Parallel"}, left : CompositeLeaves, right : CompositeLeaves]

Causes == LeafCauses \cup CompositeCauses

Success(v) == [_tag |-> "Success", value |-> v]
Failure(c) == [_tag |-> "Failure", cause |-> c]

\* what running `self` can end in
Exits == {Success(v) : v \in 0..MaxValue} \cup {Failure(c) : c \in Causes}

IsComposite(cause) == cause._tag \in {"Sequential", "Parallel"}

\* the leaves of a cause, left to right
Leaves(cause) == IF IsComposite(cause) THEN <<cause.left, cause.right>> ELSE <<cause>>

\* Cause.failureOption: the first Fail of the cause, if any
failures(cause) == SelectSeq(Leaves(cause), LAMBDA c : c._tag = "Fail")
defects(cause) == SelectSeq(Leaves(cause), LAMBDA c : c._tag = "Die")

\* Cause.isFailType
isFailType(cause) == cause._tag = "Fail"

\* Cause.squash: the first failure, else the first defect, else an InterruptedException
squash(cause) ==
    IF failures(cause) # <<>> THEN Head(failures(cause)).error
    ELSE IF defects(cause) # <<>> THEN Head(defects(cause)).defect
    ELSE InterruptedException

QueryDefect(c) == [_tag |-> "QueryDefect", cause |-> c, message |-> JsString("")]

---------------------------------------------------------------------------
(* UseRunnerOpts.                                                          *)

\* the tag handlers a caller may supply: (error) => string
HandlerIds == {"none", "hText", "hEmpty", "hUndefined"}

ApplyHandler(h, error) ==
    CASE h = "hText" -> JsString("Item missing")
      [] h = "hEmpty" -> JsString("")
      [] OTHER -> JsUndefined

\* toastifyErrors: the tag handlers and orElse (JsUndefined: not given)
OrElseValues ==
    {JsUndefined, JsFalse, JsTrue, JsString("extractMessage"), JsString("Try again"),
     JsString("")}

TagConfigs == {[t \in Tags |-> IF t = "NotFound" THEN h ELSE "none"] : h \in HandlerIds}

ToastifyErrorsConfigs == [orElse : OrElseValues, tagConfigs : TagConfigs]

ToastifyDefectsValues == {JsFalse, JsTrue, JsString("Oops")}

UseRunnerOpts ==
    [toastifyDefects : ToastifyDefectsValues,
     toastifyErrors : ToastifyErrorsConfigs,
     toastifySuccess : BOOLEAN]

\* const { orElse = "extractMessage", ...tagConfigs } = toastifyErrors
orElseOf(toastifyErrors) ==
    IF toastifyErrors.orElse = JsUndefined
    THEN JsString("extractMessage")
    ELSE toastifyErrors.orElse

---------------------------------------------------------------------------
(* The Notification Port and the log: what one invocation did, in order.   *)

ToastError(message, at) == [port |-> "toast.error", message |-> message, at |-> at]
ToastSuccess(message, at) == [port |-> "toast.success", message |-> message, at |-> at]
LogError(cause) == [port |-> "logError", message |-> JsUndefined, at |-> "tapErrorCause"]

\* the body of the Effect.sync of Effect.tapError, for the typed failure `error`
NotifyTypedFailure_NoReturn(o, error) ==
    LET tagHandler == o.toastifyErrors.tagConfigs[error._tag]
        orElse == orElseOf(o.toastifyErrors)
        byTag == IF tagHandler # "none"
                 THEN <<ToastError(ApplyHandler(tagHandler, error), "tapError")>>
                 ELSE <<>>
    IN  byTag \o
        (IF orElse # JsFalse
         THEN IF orElse = JsString("extractMessage") /\ hasStringMessage(error)
              THEN <<ToastError(error.message, "tapError")>>
              ELSE IF orElse.type = "string"
                   THEN <<ToastError(orElse, "tapError")>>
                   ELSE <<ToastError(JsString(DEFAULT_ERROR_MESSAGE), "tapError")>>
         ELSE <<>>)

NotifyTypedFailure(o, error) ==
    LET tagHandler == o.toastifyErrors.tagConfigs[error._tag]
        orElse == orElseOf(o.toastifyErrors)
    IN  IF tagHandler # "none"
        THEN <<ToastError(ApplyHandler(tagHandler, error), "tapError")>>
        ELSE IF orElse # JsFalse
             THEN IF orElse = JsString("extractMessage") /\ hasStringMessage(error)
                  THEN <<ToastError(error.message, "tapError")>>
                  ELSE IF orElse.type = "string"
                       THEN <<ToastError(orElse, "tapError")>>
                       ELSE <<ToastError(JsString(DEFAULT_ERROR_MESSAGE), "tapError")>>
             ELSE <<>>

\* Effect.tapError: runs its function on the first Fail of the cause
tapError(o, exit) ==
    IF exit._tag = "Failure" /\ failures(exit.cause) # <<>>
    THEN NotifyTypedFailure(o, Head(failures(exit.cause)).error)
    ELSE <<>>

\* Effect.tap: the success notification
tap(o, exit) ==
    IF exit._tag = "Success" /\ o.toastifySuccess
    THEN <<ToastSuccess(JsString("ok:" \o ToString(exit.value)), "tap")>>
    ELSE <<>>

tapErrorCause_DefectsOnly(exit) ==
    IF exit._tag = "Failure" /\ ~isFailType(exit.cause) THEN <<LogError(exit.cause)>> ELSE <<>>
\* Effect.tapErrorCause(Effect.logError)
tapErrorCause(exit) ==
    IF exit._tag = "Failure" THEN <<LogError(exit.cause)>> ELSE <<>>

\* self.pipe(tapError, tap, tapErrorCause, withSpan, runtime.runPromiseExit)
Pipeline(o, exit) == tapError(o, exit) \o tap(o, exit) \o tapErrorCause(exit)

\* the toast of onFailure for a cause that is not a single Fail
NotifyDefect(o) ==
    IF o.toastifyDefects # JsFalse
    THEN <<ToastError(IF o.toastifyDefects.type = "string"
                      THEN o.toastifyDefects
                      ELSE JsString(DEFAULT_DEFECT_MESSAGE), "onFailure")>>
    ELSE <<>>

Resolved(v) == [state |-> "resolved", value |-> v]
Rejected(e) == [state |-> "rejected", error |-> e]
Pending == [state |-> "pending"]

\* Exit.match({ onSuccess, onFailure }): the toasts it makes
MatchToasts(o, exit) ==
    IF exit._tag = "Failure" /\ ~isFailType(exit.cause) THEN NotifyDefect(o) ELSE <<>>

OnFailure_AlwaysDefect(cause) == Rejected(QueryDefect(squash(cause)))
OnFailure_Raw(cause) ==
    IF isFailType(cause) THEN Rejected(cause.error) ELSE Rejected(squash(cause))
\* onFailure: what the promise rejects with
OnFailure(cause) ==
    IF isFailType(cause)
    THEN Rejected(cause.error)
    ELSE Rejected(QueryDefect(squash(cause)))

\* Exit.match({ onSuccess, onFailure }): how the promise settles
MatchSettle(exit) ==
    IF exit._tag = "Success" THEN Resolved(exit.value) ELSE OnFailure(exit.cause)

---------------------------------------------------------------------------
(* The hook adapters and what they hand to @tanstack/react-query.          *)

HookKinds == {"useEffectQuery", "useEffectInfiniteQuery", "useEffectMutation"}

\* `retry` is omitted from the option types, and still travels in `...options`
RetryOptions ==
    {[given |-> FALSE, count |-> 0]} \cup {[given |-> TRUE, count |-> n] : n \in 0..MaxRetryOption}

NotRendered == [queryFn |-> "none"]

ForwardQueryFn_Always(queryFn) == "wrapped"
\* queryFn: options.queryFn === skipToken ? skipToken : queryFn
ForwardQueryFn(queryFn) == IF queryFn = "skipToken" THEN "skipToken" ELSE "wrapped"

useEffectQuery(o) ==
    [queryFn |-> ForwardQueryFn(o.queryFn), inner |-> o.queryFn,
     retry |-> o.retry, throwOnError |-> FALSE]

useEffectInfiniteQuery(o) ==
    [queryFn |-> ForwardQueryFn(o.queryFn), inner |-> o.queryFn,
     retry |-> o.retry, throwOnError |-> FALSE]

useEffectMutation(o) ==
    [queryFn |-> "wrapped", inner |-> o.queryFn,
     retry |-> o.retry, throwOnError |-> FALSE]

UseHook(o) ==
    CASE o.kind = "useEffectQuery" -> useEffectQuery(o)
      [] o.kind = "useEffectInfiniteQuery" -> useEffectInfiniteQuery(o)
      [] OTHER -> useEffectMutation(o)

\* retries of a failed query when neither the hook nor the client sets `retry`
DefaultQueryRetry == 3
\* retries of a failed mutation when neither the hook nor the client sets `retry`
DefaultMutationRetry == 0

\* the retry count the library works with: the forwarded option, else the
\* client's defaultOptions (which set none), else the library's own default
RetryLimit(kind, f) ==
    IF f.retry.given THEN f.retry.count
    ELSE IF kind = "useEffectMutation" THEN DefaultMutationRetry ELSE DefaultQueryRetry

\* queryClient.defaultOptions.mutations.onError: toast.error(error.message)
ClientOnError(kind, settled) ==
    IF kind = "useEffectMutation" /\ settled.state = "rejected"
    THEN <<ToastError(settled.error.message, "onError")>>
    ELSE <<>>

---------------------------------------------------------------------------
(* State.                                                                  *)

NoExit == [_tag |-> "None"]

Idle ==
    [pc |-> "idle", exit |-> NoExit, trace |-> <<>>, settled |-> Pending,
     runs |-> 0, queryFn |-> "none", entered |-> FALSE]

HookOpts(kinds, fns, retries, runnerOpts) ==
    {[kind |-> k, queryFn |-> q, retry |-> r,
      toastifyDefects |-> u.toastifyDefects,
      toastifyErrors |-> u.toastifyErrors,
      toastifySuccess |-> u.toastifySuccess] :
        k \in kinds, q \in fns, r \in retries, u \in runnerOpts}

\* the wrapped function of a hook, called by whoever holds it
Init ==
    /\ opts \in HookOpts({"useEffectQuery"}, {"fn"}, {[given |-> FALSE, count |-> 0]},
                         UseRunnerOpts)
    /\ forwarded = NotRendered
    /\ inv = [i \in Invocations |-> Idle]

\* the runner options the adapter specification ranges over
AdapterRunnerOpts ==
    [toastifyDefects : {JsFalse, JsTrue},
     toastifyErrors : [orElse : {JsFalse, JsTrue},
                       tagConfigs : {[t \in Tags |-> IF t = "NotFound" THEN h ELSE "none"] :
                                        h \in {"none", "hText"}}],
     toastifySuccess : {FALSE}]

\* a component about to render one of the three hooks
InitAdapter ==
    /\ opts \in HookOpts(HookKinds, {"fn"}, RetryOptions, AdapterRunnerOpts)
    /\ forwarded = NotRendered
    /\ inv = [i \in Invocations |-> Idle]

---------------------------------------------------------------------------
(* Operations.                                                             *)

\* wrap(span)(self): a caller holds the wrapped function and calls it
Call(i) ==
    /\ inv[i].pc \in {"idle", "settled"}
    /\ inv' = [inv EXCEPT ![i] = [Idle EXCEPT !.pc = "pending", !.runs = 1, !.queryFn = "fn"]]
    /\ UNCHANGED <<opts, forwarded>>

\* the fiber runs `self` through the pipeline and runPromiseExit yields its Exit
RunPromiseExit(i) ==
    /\ inv[i].pc = "pending"
    /\ \E exit \in Exits :
         inv' = [inv EXCEPT ![i].pc = "exited",
                            ![i].exit = exit,
                            ![i].entered = TRUE,
                            ![i].trace = Pipeline(opts, exit)]
    /\ UNCHANGED <<opts, forwarded>>

\* .then(Exit.match({ onSuccess, onFailure })): the promise settles
Then(i) ==
    /\ inv[i].pc = "exited"
    /\ inv' = [inv EXCEPT ![i].pc = "settled",
                          ![i].trace = inv[i].trace \o MatchToasts(opts, inv[i].exit),
                          ![i].settled = MatchSettle(inv[i].exit)]
    /\ UNCHANGED <<opts, forwarded>>

\* the component renders: the hook builds the options and calls the library's hook
Render ==
    /\ \E q \in (IF opts.kind = "useEffectMutation" THEN {"fn"} ELSE {"fn", "skipToken"}) :
         /\ opts' = [opts EXCEPT !.queryFn = q]
         /\ forwarded' = UseHook(opts')
    /\ UNCHANGED inv

\* the library starts a fetch (on mount, on refetch, on fetchNextPage) or a
\* mutation (on mutate); a query keeps one fetch in flight
LibraryFetch(i) ==
    /\ forwarded # NotRendered
    /\ inv[i].pc \in {"idle", "done"}
    /\ opts.kind # "useEffectMutation" => \A j \in Invocations \ {i} : inv[j].pc = "idle"
    /\ inv' = [inv EXCEPT ![i] =
         IF forwarded.queryFn = "skipToken"
         THEN \* no query function: the library rejects without calling anything
              [Idle EXCEPT !.pc = "done", !.queryFn = forwarded.inner,
                           !.settled = Rejected([_tag |-> "Error",
                                                 message |-> JsString("Missing queryFn")])]
         ELSE IF forwarded.inner = "skipToken"
         THEN \* the wrapped function calls options.queryFn, which is no function
              [Idle EXCEPT !.pc = "settled", !.runs = 1, !.queryFn = forwarded.inner,
                           !.settled = Rejected([_tag |-> "TypeError",
                                                 message |-> JsString("not a function")])]
         ELSE [Idle EXCEPT !.pc = "pending", !.runs = 1, !.queryFn = forwarded.inner]]
    /\ UNCHANGED <<opts, forwarded>>

CanRetry(i) ==
    /\ forwarded # NotRendered
    /\ inv[i].settled.state = "rejected"
    /\ inv[i].runs - 1 < RetryLimit(opts.kind, forwarded)

\* the library's retryer calls the wrapped function again for the same fetch
LibraryRetry(i) ==
    /\ inv[i].pc = "settled"
    /\ CanRetry(i)
    /\ inv' = [inv EXCEPT ![i].pc = "pending",
                          ![i].runs = inv[i].runs + 1,
                          ![i].exit = NoExit,
                          ![i].trace = <<>>,
                          ![i].settled = Pending]
    /\ UNCHANGED <<opts, forwarded>>

\* the library takes the settled promise as the result of the fetch or mutation
LibrarySettle(i) ==
    /\ inv[i].pc = "settled"
    /\ ~CanRetry(i)
    /\ inv' = [inv EXCEPT ![i].pc = "done",
                          ![i].trace = inv[i].trace \o ClientOnError(opts.kind, inv[i].settled)]
    /\ UNCHANGED <<opts, forwarded>>

Next ==
    \E i \in Invocations :
        \/ Call(i)
        \/ RunPromiseExit(i)
        \/ Then(i)

Spec == Init /\ [][Next]_vars

NextAdapter ==
    \/ Render
    \/ \E i \in Invocations :
        \/ LibraryFetch(i)
        \/ RunPromiseExit(i)
        \/ Then(i)
        \/ LibraryRetry(i)
        \/ LibrarySettle(i)

SpecAdapter == InitAdapter /\ [][NextAdapter]_vars

---------------------------------------------------------------------------
(* Reading a slot.                                                         *)

\* the slots whose wrapped function has run to its Exit
Exited == {i \in Invocations : inv[i].pc \in {"exited", "settled", "done"} /\ inv[i].entered}
\* the slots whose promise has settled
Settled == {i \in Invocations : inv[i].pc \in {"settled", "done"} /\ inv[i].entered}

SingleFail(i) == inv[i].exit._tag = "Failure" /\ inv[i].exit.cause._tag = "Fail"
DefectClass(i) == inv[i].exit._tag = "Failure" /\ inv[i].exit.cause._tag # "Fail"

Errors(t) == SelectSeq(t, LAMBDA e : e.port = "toast.error")
Toasts(t) == SelectSeq(t, LAMBDA e : e.port \in {"toast.error", "toast.success"})
Logs(t) == SelectSeq(t, LAMBDA e : e.port = "logError")
Positions(t, P(_)) == {k \in 1..Len(t) : P(t[k])}
IsToast(e) == e.port \in {"toast.error", "toast.success"}
IsLog(e) == e.port = "logError"

HandlerOf(i) == opts.toastifyErrors.tagConfigs[inv[i].exit.cause.error._tag]

\* what a QueryDefect may carry for a cause: the payload of one of its leaves
Payloads(cause) ==
    {IF c._tag = "Fail" THEN c.error ELSE IF c._tag = "Die" THEN c.defect ELSE InterruptedException :
        c \in {Leaves(cause)[k] : k \in 1..Len(Leaves(cause))}}

---------------------------------------------------------------------------
(* C1: when the computation ends in one typed failure E, the promise       *)
(* rejects with E itself, whatever the notification configuration: never   *)
(* with a QueryDefect and never with a changed value.                      *)
TypedFailurePassthrough ==
    \A i \in Settled :
        SingleFail(i) => inv[i].settled = Rejected(inv[i].exit.cause.error)

TypedFailurePassthroughWitness ==
    \E i \in Settled :
        /\ inv[i].exit = Failure(Fail([_tag |-> "Unknown", message |-> JsString("boom")]))
        /\ inv[i].settled.state = "rejected"
        /\ opts.toastifyDefects = JsString("Oops")
        /\ opts.toastifyErrors.orElse = JsTrue

TagPrecedence ==
    \A i \in Exited :
        SingleFail(i) =>
            /\ HandlerOf(i) # "none" =>
                   Toasts(inv[i].trace) =
                       <<ToastError(ApplyHandler(HandlerOf(i), inv[i].exit.cause.error),
                                    "tapError")>>
            /\ HandlerOf(i) = "none" =>
                   \A k \in 1..Len(inv[i].trace) :
                       inv[i].trace[k].message # JsString("Item missing")

TagPrecedenceWitness ==
    \E i \in Settled :
        /\ inv[i].exit = Failure(Fail([_tag |-> "NotFound", message |-> JsString("boom")]))
        /\ opts.toastifyErrors.tagConfigs["NotFound"] = "hText"
        /\ opts.toastifyErrors.orElse = JsTrue
        /\ Len(Errors(inv[i].trace)) = 1

(* C4: a typed failure makes no toast.error when its message is absent or  *)
(* empty: (a) no handler, orElse "extractMessage", no string message;      *)
(* (b) no handler, orElse ""; (c) the handler returns nothing or "";       *)
(* "extractMessage" is never shown and "Something went wrong" only when    *)
(* orElse is true.                                                         *)
NoMessageNoToast ==
    \A i \in Exited :
        SingleFail(i) =>
            LET error == inv[i].exit.cause.error
                orElse == orElseOf(opts.toastifyErrors)
                shown == {Errors(inv[i].trace)[k].message : k \in 1..Len(Errors(inv[i].trace))}
            IN  /\ (/\ HandlerOf(i) = "none"
                    /\ orElse = JsString("extractMessage")
                    /\ error.message.type # "string") => shown = {}
                /\ (HandlerOf(i) = "none" /\ orElse = JsString("")) => shown = {}
                /\ HandlerOf(i) \in {"hEmpty", "hUndefined"} => shown = {}
                /\ JsString("extractMessage") \notin shown
                /\ JsString(DEFAULT_ERROR_MESSAGE) \in shown => orElse = JsTrue

(* C5: with toastifyDefects false, an invocation that ends in a defect,    *)
(* an interruption or a composite cause makes no toast.error, whatever     *)
(* toastifyErrors is, and still rejects with a QueryDefect.                *)
DefectSuppression ==
    \A i \in Settled :
        (DefectClass(i) /\ opts.toastifyDefects = JsFalse) =>
            /\ Errors(inv[i].trace) = <<>>
            /\ \E c \in Payloads(inv[i].exit.cause) : inv[i].settled.error = QueryDefect(c)

(* C6 as stated: every invocation, whatever its outcome, writes its log    *)
(* entry before any of its notifications and before its promise settles.   *)
LogBeforeNotify ==
    \A i \in Exited :
        \E k \in Positions(inv[i].trace, IsLog) :
            \A j \in Positions(inv[i].trace, IsToast) : k < j

(* C6 as amended: an invocation that ends in a failure writes exactly one  *)
(* log entry, before its promise settles and whatever the notification     *)
(* configuration; the defect notification comes after the log entry, a     *)
(* typed-failure notification before it; a success writes no log entry.    *)
LogOnFailureBeforeSettle ==
    \A i \in Exited :
        LET t == inv[i].trace
        IN  /\ inv[i].exit._tag = "Success" => Logs(t) = <<>>
            /\ inv[i].exit._tag = "Failure" =>
                   /\ Len(Logs(t)) = 1
                   /\ \A k \in Positions(t, IsLog), j \in Positions(t, IsToast) :
                          /\ t[j].at = "onFailure" => k < j
                          /\ t[j].at = "tapError" => j < k

LogOnFailureBeforeSettleWitness ==
    \E i \in Invocations :
        /\ inv[i].pc = "exited"
        /\ SingleFail(i)
        /\ Len(inv[i].trace) = 2
        /\ inv[i].trace[1].at = "tapError"
        /\ inv[i].trace[2].port = "logError"

(* C10: one invocation makes at most one call to toast.success and         *)
(* toast.error in total, and never both a typed-failure toast and a        *)
(* defect toast.                                                           *)
AtMostOneToast ==
    \A i \in Exited :
        /\ Len(Toasts(inv[i].trace)) <= 1
        /\ ~(\E j, k \in 1..Len(inv[i].trace) :
                inv[i].trace[j].at = "tapError" /\ inv[i].trace[k].at = "onFailure")

---------------------------------------------------------------------------
(* C7: given skipToken as queryFn, useEffectQuery and                      *)
(* useEffectInfiniteQuery forward skipToken itself, so no render and no    *)
(* refetch enters the runtime, calls the user function or toasts; given a  *)
(* function, they forward the wrapped function.                            *)
SkipSentinel ==
    /\ (forwarded # NotRendered /\ opts.kind # "useEffectMutation") =>
           /\ forwarded.queryFn = "skipToken" <=> opts.queryFn = "skipToken"
           /\ forwarded.queryFn = "wrapped" <=> opts.queryFn = "fn"
    /\ \A i \in Invocations :
           inv[i].queryFn = "skipToken" =>
               /\ ~inv[i].entered
               /\ inv[i].runs = 0
               /\ inv[i].trace = <<>>

SkipSentinelWitness ==
    \E i \in Invocations :
        /\ opts.kind = "useEffectInfiniteQuery"
        /\ forwarded.queryFn = "skipToken"
        /\ inv[i].queryFn = "skipToken"
        /\ inv[i].pc = "done"

(* C8: the forwarded options never leave retrying enabled: a fetch or a    *)
(* mutation whose computation fails runs the computation once.             *)
RetriesDisabled ==
    /\ forwarded # NotRendered => RetryLimit(opts.kind, forwarded) = 0
    /\ \A i \in Invocations : inv[i].runs <= 1

(* C9: for a mutation inside EffectQueryProvider the notification policy   *)
(* of the bridge is the only source of toasts: none when a typed failure   *)
(* has no handler and orElse is false, at most one otherwise, and none     *)
(* from the library's lifecycle callbacks.                                 *)
SingleNotificationPath ==
    \A i \in Invocations :
        (opts.kind = "useEffectMutation" /\ inv[i].pc = "done" /\ SingleFail(i)) =>
            /\ Len(Errors(inv[i].trace)) <= 1
            /\ \A k \in 1..Len(inv[i].trace) : inv[i].trace[k].at # "onError"
            /\ (HandlerOf(i) = "none" /\ opts.toastifyErrors.orElse = JsFalse) =>
                   Errors(inv[i].trace) = <<>>

====
